---- MODULE Spec2Model ----
(***************************************************************************)
(* PirateWeatherProvider (src/src/weather-providers/pirateweather-provider *)
(* .ts): the adapter that fetches a Pirate Weather forecast and normalises *)
(* it into the provider-agnostic WeatherData.                              *)
(*                                                                         *)
(* JavaScript values are tagged records: the field t is the value's type,  *)
(* so that undefined, NaN, numbers, strings and objects can be told apart  *)
(* and an absent field is a value the code can read (as JavaScript does).  *)
(***************************************************************************)
EXTENDS Integers, Sequences, FiniteSets, TLC

----------------------------------------------------------------------------
(* JavaScript values and the operators the source applies to them *)

Undefined == [t |-> "undefined"]
Null == [t |-> "null"]
NaN == [t |-> "NaN"]
Num(n) == [t |-> "number", v |-> n]
Str(s) == [t |-> "string", v |-> s]

\* new Error(message) and the engine's own TypeError / SyntaxError
Error(name, message) == [t |-> "Error", name |-> name, message |-> message]

\* ToBoolean: what `!x` and `x || y` test
Truthy(x) ==
    CASE x.t = "undefined" -> FALSE
      [] x.t = "null" -> FALSE
      [] x.t = "NaN" -> FALSE
      [] x.t = "number" -> x.v # 0
      [] x.t = "string" -> x.v # ""
      [] OTHER -> TRUE

\* a || b
Or(a, b) == IF Truthy(a) THEN a ELSE b

\* x * k for a numeric literal k: undefined * k is NaN
Times(x, k) == IF x.t = "number" THEN Num(x.v * k) ELSE NaN

\* `${x}` of a template literal
ToText(x) ==
    CASE x.t = "string" -> x.v
      [] x.t = "number" -> ToString(x.v)
      [] x.t = "undefined" -> "undefined"
      [] x.t = "null" -> "null"
      [] OTHER -> "NaN"

\* new Date(ms)
InvalidDate == [t |-> "Date", valid |-> FALSE]
NewDate(ms) == IF ms.t = "number" THEN [t |-> "Date", valid |-> TRUE, ms |-> ms.v]
               ELSE InvalidDate

\* The properties every object literal inherits from Object.prototype: a
\* lookup table written as an object literal answers these keys too.
ObjectPrototypeKeys ==
    {"constructor", "toString", "toLocaleString", "valueOf", "hasOwnProperty",
     "isPrototypeOf", "propertyIsEnumerable", "__proto__"}

InheritedProperty(key) ==
    IF key = "__proto__" THEN [t |-> "object", v |-> "Object.prototype"]
    ELSE [t |-> "function", v |-> "Object.prototype." \o key]

\* table[key] on an object literal `table`: own property, else inherited, else undefined
PropertyGet(table, key) ==
    IF ToText(key) \in DOMAIN table THEN table[ToText(key)]
    ELSE IF ToText(key) \in ObjectPrototypeKeys THEN InheritedProperty(ToText(key))
    ELSE Undefined

----------------------------------------------------------------------------
(* The unified condition enum and the lookup tables *)

\* A member of the Weather enum (imported from ../image-sources)
W(member) == [t |-> "Weather", v |-> member]

Weather ==
    {W("All"), W("Sunny"), W("ClearNight"), W("Rainy"), W("Snowy"), W("Windy"),
     W("Foggy"), W("Cloudy"), W("PartlyCloudy"), W("PartlyCloudyNight"),
     W("Hail"), W("Lightning"), W("Exceptional")}

iconMap ==
    ("clear-day" :> W("Sunny")) @@
    ("clear-night" :> W("ClearNight")) @@
    ("rain" :> W("Rainy")) @@
    ("snow" :> W("Snowy")) @@
    ("sleet" :> W("Snowy")) @@
    ("wind" :> W("Windy")) @@
    ("fog" :> W("Foggy")) @@
    ("cloudy" :> W("Cloudy")) @@
    ("partly-cloudy-day" :> W("PartlyCloudy")) @@
    ("partly-cloudy-night" :> W("PartlyCloudyNight")) @@
    ("hail" :> W("Hail")) @@
    ("thunderstorm" :> W("Lightning")) @@
    ("tornado" :> W("Exceptional"))

mapIconToCondition(icon) == Or(PropertyGet(iconMap, icon), W("All"))

baseIconUrl ==
    "https://raw.githubusercontent.com/manifestinteractive/weather-underground-icons/master/dist/icons/white/png/64x64"

iconMapping ==
    ("clear-day" :> Str(baseIconUrl \o "/clear.png")) @@
    ("clear-night" :> Str(baseIconUrl \o "/nt_clear.png")) @@
    ("rain" :> Str(baseIconUrl \o "/rain.png")) @@
    ("snow" :> Str(baseIconUrl \o "/snow.png")) @@
    ("sleet" :> Str(baseIconUrl \o "/sleet.png")) @@
    ("wind" :> Str(baseIconUrl \o "/wind.png")) @@
    ("fog" :> Str(baseIconUrl \o "/fog.png")) @@
    ("cloudy" :> Str(baseIconUrl \o "/cloudy.png")) @@
    ("partly-cloudy-day" :> Str(baseIconUrl \o "/partlycloudy.png")) @@
    ("partly-cloudy-night" :> Str(baseIconUrl \o "/nt_partlycloudy.png")) @@
    ("hail" :> Str(baseIconUrl \o "/sleet.png")) @@
    ("thunderstorm" :> Str(baseIconUrl \o "/tstorms.png")) @@
    ("tornado" :> Str(baseIconUrl \o "/tornado.png"))

getIconUrl(icon) == Or(PropertyGet(iconMapping, icon), Str(baseIconUrl \o "/cloudy.png"))

formatCondition(summary) == Or(summary, Str("Unknown"))

unitsMap ==
    ("us" :> Str("imperial")) @@
    ("si" :> Str("metric")) @@
    ("ca" :> Str("metric")) @@
    ("uk2" :> Str("hybrid"))

getUnitsDescription(units) == Or(PropertyGet(unitsMap, units), Str("imperial"))

----------------------------------------------------------------------------
(* The transformation of a vendor response *)

\* daily.slice(0, 7) keeps at most this many entries
DailyLimit == 7

Min(a, b) == IF a < b THEN a ELSE b

\* array.slice(0, end)
SliceFromStart(items, end) == SubSeq(items, 1, Min(Len(items), end))

transformDailyWeather(day, units) ==
    [date |-> NewDate(Times(day.time, 1000)),
     temperatureMax |-> Or(day.temperatureMax, day.temperatureHigh),
     temperatureMin |-> Or(day.temperatureMin, day.temperatureLow),
     condition |-> formatCondition(day.summary),
     conditionUnified |-> mapIconToCondition(day.icon),
     icon |-> getIconUrl(day.icon),
     humidity |-> Times(day.humidity, 100),
     pressure |-> day.pressure,
     windSpeed |-> day.windSpeed,
     windGust |-> day.windGust,
     windBearing |-> day.windBearing,
     cloudCover |-> Times(day.cloudCover, 100),
     uvIndex |-> day.uvIndex]

dailySliceUnbounded(items, units) ==
    [i \in 1..Len(items) |-> transformDailyWeather(items[i], units)]

\* daily.slice(0, 7).map(day => this.transformDailyWeather(day, units))
dailySlice(items, units) ==
    [i \in 1..Len(SliceFromStart(items, DailyLimit)) |->
        transformDailyWeather(SliceFromStart(items, DailyLimit)[i], units)]

Return(value) == [kind |-> "return", value |-> value]
Throw(error) == [kind |-> "throw", error |-> error]

\* Reading a property of undefined or null throws a TypeError
CannotRead(of, property) ==
    Error("TypeError",
          "Cannot read properties of " \o ToText(of) \o " (reading '" \o property \o "')")

Nullish(x) == x.t \in {"undefined", "null"}

\* transformResponse(data, units): a completion, either a return with the
\* WeatherData or a throw, in the order the statements are evaluated.
transformResponse(data, units) ==
    IF Nullish(data) THEN Throw(CannotRead(data, "currently"))
    ELSE IF Nullish(data.daily) THEN Throw(CannotRead(data.daily, "data"))
    ELSE IF Nullish(data.currently) THEN Throw(CannotRead(data.currently, "icon"))
    ELSE IF Nullish(data.daily.data) THEN Throw(CannotRead(data.daily.data, "slice"))
    ELSE Return(
        [current |->
            [temperature |-> data.currently.temperature,
             feelsLike |-> data.currently.apparentTemperature,
             condition |-> formatCondition(data.currently.summary),
             conditionUnified |-> mapIconToCondition(data.currently.icon),
             icon |-> getIconUrl(data.currently.icon),
             humidity |-> Times(data.currently.humidity, 100),
             pressure |-> data.currently.pressure,
             windSpeed |-> data.currently.windSpeed,
             windGust |-> data.currently.windGust,
             windBearing |-> data.currently.windBearing,
             cloudCover |-> Times(data.currently.cloudCover, 100),
             uvIndex |-> data.currently.uvIndex,
             visibility |-> data.currently.visibility],
         daily |-> dailySlice(data.daily.data.items, units),
         location |->
            [latitude |-> data.latitude,
             longitude |-> data.longitude,
             timezone |-> data.timezone],
         units |-> getUnitsDescription(units)])

----------------------------------------------------------------------------
(* The inputs: configurations and what the transport can answer *)

\* Number of invocations of fetchWeatherAsync that may be in flight together
NInv == 2

\* Longest vendor daily array tried
MaxDaily == 8

Invocations == 1..NInv

Config(apiKey, latitude, longitude, unitCode) ==
    [t |-> "object", apiKey |-> apiKey, latitude |-> latitude,
     longitude |-> longitude, units |-> unitCode]

\* getDefaultConfig()
getDefaultConfig == Config(Str(""), Num(0), Num(0), Str("us"))

UnitInputs ==
    {Undefined, Str(""), Str("us"), Str("si"), Str("ca"), Str("uk2"), Str("metric"),
     Str("constructor")}

Configs ==
    {Config(k, la, lo, u) :
        k \in {Undefined, Str(""), Str("key")},
        la \in {Undefined, Num(0), Num(40)},
        lo \in {Undefined, Num(0), Num(-105)},
        u \in UnitInputs}

IconInputs ==
    {Str(k) : k \in DOMAIN iconMap} \cup
    {Undefined, Str(""), Str("unknown-code"), Str("Clear-Day"), Str("constructor"),
     Str("toString")}

\* A vendor daily entry (PirateWeatherDaily), the fields the adapter reads
Day(time, icon, tMax, tHigh, tMin, tLow) ==
    [t |-> "object", time |-> time, summary |-> Str("Clear throughout the day."),
     icon |-> icon,
     temperatureHigh |-> tHigh, temperatureLow |-> tLow,
     temperatureMax |-> tMax, temperatureMin |-> tMin,
     humidity |-> Num(1), pressure |-> Num(1013), windSpeed |-> Num(5),
     windGust |-> Undefined, windBearing |-> Num(180), cloudCover |-> Num(0),
     uvIndex |-> Num(3)]

\* The k-th day of a chronological forecast: every entry differs from the others
DayAt(k) ==
    Day(Num(86400 * k),
        IF k % 2 = 0 THEN Str("rain") ELSE Str("clear-day"),
        Num(20 + k), Num(19 + k), Num(10 + k), Num(11 + k))

Array(items) == [t |-> "array", items |-> items]

DailyInputs ==
    {Array([k \in 1..n |-> DayAt(k)]) : n \in 0..MaxDaily} \cup
    {Array(<<Day(Num(86400), Str("snow"), tMax, tHigh, tMin, tLow)>>) :
        tMax \in {Undefined, Num(0), Num(30)}, tHigh \in {Undefined, Num(0), Num(25)},
        tMin \in {Undefined, Num(0), Num(-4)}, tLow \in {Undefined, Num(0), Num(-2)}}

\* A vendor currently block (PirateWeatherCurrently)
Currently(icon, temperature, humidity) ==
    [t |-> "object", time |-> Num(86400), summary |-> Str("Clear"),
     icon |-> icon, temperature |-> temperature, apparentTemperature |-> Num(70),
     humidity |-> humidity, pressure |-> Num(1013), windSpeed |-> Num(5),
     windGust |-> Num(9), windBearing |-> Num(180), cloudCover |-> Num(1),
     uvIndex |-> Num(3), visibility |-> Num(10)]

\* A vendor response (PirateWeatherResponse)
Data(latitude, currently, daily) ==
    [t |-> "object", latitude |-> latitude, longitude |-> Num(-105),
     timezone |-> Str("America/Denver"), currently |-> currently, daily |-> daily]

DailyBlock(data) == [t |-> "object", summary |-> Str("Clear"), icon |-> Str("clear-day"),
                     data |-> data]

SampleCurrently == Currently(Str("clear-day"), Num(72), Num(0))
SampleDaily == DailyBlock(Array(<<DayAt(1), DayAt(2)>>))

\* Parsed bodies: conforming documents, and documents lacking part of the schema
DataInputs ==
    {Data(Num(40), Currently(ic, Num(72), Num(0)), SampleDaily) : ic \in IconInputs} \cup
    {Data(Num(40), SampleCurrently, DailyBlock(d)) : d \in DailyInputs} \cup
    {Null,
     Data(Num(40), Undefined, SampleDaily),
     Data(Num(40), SampleCurrently, Undefined),
     Data(Num(40), SampleCurrently, DailyBlock(Undefined)),
     Data(Num(40), Currently(Str("rain"), Undefined, Undefined), SampleDaily),
     Data(Undefined, SampleCurrently, SampleDaily)}

Malformed == [t |-> "malformed"]
Json(data) == [t |-> "json", data |-> data]

\* What fetch resolves with: response.ok is true exactly for a 2xx status
Response(status, statusText, body) ==
    [t |-> "Response", ok |-> status \in 200..299, status |-> status,
     statusText |-> statusText, body |-> body]

Responses ==
    {Response(200, "OK", Json(d)) : d \in DataInputs} \cup
    {Response(200, "OK", Malformed), Response(204, "No Content", Malformed),
     Response(401, "Unauthorized", Json(Null)), Response(404, "Not Found", Malformed),
     Response(500, "Internal Server Error", Malformed)}

\* What fetch rejects with: an Error of the engine, or any other thrown value
Rejections == {Error("TypeError", "Failed to fetch"), Str("timeout")}

\* The smaller input sets of the interleaved specification
InterleavedConfigs ==
    {getDefaultConfig} \cup
    {Config(Str("key"), Num(40), Num(-105), u) : u \in {Undefined, Str("si"), Str("uk2")}}

InterleavedResponses ==
    {Response(200, "OK", Json(Data(Num(40), SampleCurrently, SampleDaily))),
     Response(200, "OK", Json(Data(Num(40), Undefined, SampleDaily))),
     Response(200, "OK", Malformed),
     Response(401, "Unauthorized", Malformed)}

----------------------------------------------------------------------------
(* fetchWeatherAsync *)

VARIABLES
    adapter,            \* the provider's fields: id, name, baseUrl
    pc,                 \* per invocation: idle, awaitFetch, awaitJson, done
    config,             \* per invocation: the argument it was called with
    units, url,         \* per activation record: the const bindings of the call
    response,           \* per activation record: what `await fetch(url)` gave
    caught,             \* per invocation: the value bound by `catch (error)`
    outcome,            \* per invocation: how the returned promise settled
    requests,           \* per invocation: the URLs it handed to fetch, in order
    bodyReads,          \* per invocation: how often it called response.json()
    transport,          \* per invocation: what the transport answered (history)
    suspendedTogether   \* history: two invocations were suspended at one time

vars == <<adapter, pc, config, units, url, response, caught, outcome, requests,
          bodyReads, transport, suspendedTogether>>

AdapterFields ==
    [id |-> "pirateweather", name |-> "Pirate Weather",
     baseUrl |-> "https://api.pirateweather.net/forecast"]

Pending == [kind |-> "pending"]
Fulfilled(value) == [kind |-> "fulfilled", value |-> value]
Rejected(error) == [kind |-> "rejected", error |-> error]

FrameShared(i) == 1

\* The activation record of invocation i: each call has its own bindings
Frame(i) == i

ValidationErrorKeyOnly(cfg) ==
    IF ~Truthy(cfg.apiKey) THEN Error("Error", "Pirate Weather API key is required")
    ELSE Undefined

\* The two guards at the head of fetchWeatherAsync: the Error thrown, or undefined
ValidationError(cfg) ==
    IF ~Truthy(cfg.apiKey) THEN Error("Error", "Pirate Weather API key is required")
    ELSE IF ~Truthy(cfg.latitude) \/ ~Truthy(cfg.longitude)
         THEN Error("Error", "Latitude and longitude are required")
    ELSE Undefined

\* const units = config.units || 'us'
UnitsOf(cfg) == Or(cfg.units, Str("us"))

\* const url = `${this.baseUrl}/${config.apiKey}/${config.latitude},${config.longitude}?units=${units}`
UrlOf(baseUrl, cfg, unitCode) ==
    baseUrl \o "/" \o ToText(cfg.apiKey) \o "/" \o ToText(cfg.latitude) \o ","
        \o ToText(cfg.longitude) \o "?units=" \o ToText(unitCode)

ResponseOkAlways(resp) == TRUE

\* response.ok
ResponseOk(resp) == resp.ok

\* new Error(`Pirate Weather API error: ${response.status} ${response.statusText}`)
StatusError(resp) ==
    Error("Error", "Pirate Weather API error: " \o ToString(resp.status) \o " "
                        \o resp.statusText)

FetchFailurePrefix == "Failed to fetch Pirate Weather data"

Rethrow(error) == error

\* The catch block: the Error thrown in place of the one caught
Wrap(error) ==
    IF error.t = "Error" THEN Error("Error", FetchFailurePrefix \o ": " \o error.message)
    ELSE Error("Error", FetchFailurePrefix)

\* await response.json(): the parsed document, or the SyntaxError of the parser
BodyJson(body) ==
    IF body.t = "malformed"
    THEN Throw(Error("SyntaxError", "Unexpected token < in JSON at position 0"))
    ELSE Return(body.data)

Suspended(p) == Cardinality({j \in Invocations : p[j] \in {"awaitFetch", "awaitJson"}})

Init ==
    /\ adapter = AdapterFields
    /\ pc = [i \in Invocations |-> "idle"]
    /\ config = [i \in Invocations |-> Undefined]
    /\ units = [i \in Invocations |-> Undefined]
    /\ url = [i \in Invocations |-> Undefined]
    /\ response = [i \in Invocations |-> Undefined]
    /\ caught = [i \in Invocations |-> Undefined]
    /\ outcome = [i \in Invocations |-> Pending]
    /\ requests = [i \in Invocations |-> <<>>]
    /\ bodyReads = [i \in Invocations |-> 0]
    /\ transport = [i \in Invocations |-> Undefined]
    /\ suspendedTogether = FALSE

\* The catch block taken with `error`: the promise rejects with the wrapped error
Catch(i, error) ==
    /\ caught' = [caught EXCEPT ![i] = error]
    /\ outcome' = [outcome EXCEPT ![i] = Rejected(Wrap(error))]
    /\ pc' = [pc EXCEPT ![i] = "done"]

\* fetchWeatherAsync(cfg) up to its first await: the guards, the URL, fetch(url)
Call(i, cfg) ==
    /\ pc[i] = "idle"
    /\ config' = [config EXCEPT ![i] = cfg]
    /\ IF ValidationError(cfg) # Undefined
       THEN /\ outcome' = [outcome EXCEPT ![i] = Rejected(ValidationError(cfg))]
            /\ pc' = [pc EXCEPT ![i] = "done"]
            /\ UNCHANGED <<units, url, requests>>
       ELSE /\ units' = [units EXCEPT ![Frame(i)] = UnitsOf(cfg)]
            /\ url' = [url EXCEPT ![Frame(i)] = Str(UrlOf(adapter.baseUrl, cfg, UnitsOf(cfg)))]
            /\ requests' = [requests EXCEPT ![i] =
                                Append(@, Str(UrlOf(adapter.baseUrl, cfg, UnitsOf(cfg))))]
            /\ pc' = [pc EXCEPT ![i] = "awaitFetch"]
            /\ UNCHANGED outcome
    /\ suspendedTogether' = (suspendedTogether \/ Suspended(pc') > 1)
    /\ UNCHANGED <<adapter, response, caught, bodyReads, transport>>

\* fetch rejects: the catch block runs
FetchReject(i, error) ==
    /\ pc[i] = "awaitFetch"
    /\ transport' = [transport EXCEPT ![i] = [t |-> "rejection", error |-> error]]
    /\ Catch(i, error)
    /\ UNCHANGED <<adapter, config, units, url, response, requests, bodyReads,
                   suspendedTogether>>

FetchResolveRetry(i, resp) ==
    /\ pc[i] = "awaitFetch"
    /\ transport' = [transport EXCEPT ![i] = resp]
    /\ response' = [response EXCEPT ![Frame(i)] = resp]
    /\ IF ~ResponseOk(resp)
       THEN /\ requests' = [requests EXCEPT ![i] = Append(@, url[Frame(i)])]
            /\ UNCHANGED <<pc, caught, outcome, bodyReads>>
       ELSE /\ bodyReads' = [bodyReads EXCEPT ![i] = @ + 1]
            /\ pc' = [pc EXCEPT ![i] = "awaitJson"]
            /\ UNCHANGED <<caught, outcome, requests>>
    /\ UNCHANGED <<adapter, config, units, url, suspendedTogether>>

\* fetch resolves: the status check, then response.json() is called and awaited
FetchResolve(i, resp) ==
    /\ pc[i] = "awaitFetch"
    /\ transport' = [transport EXCEPT ![i] = resp]
    /\ response' = [response EXCEPT ![Frame(i)] = resp]
    /\ IF ~ResponseOk(resp)
       THEN /\ Catch(i, StatusError(resp))
            /\ UNCHANGED bodyReads
       ELSE /\ bodyReads' = [bodyReads EXCEPT ![i] = @ + 1]
            /\ pc' = [pc EXCEPT ![i] = "awaitJson"]
            /\ UNCHANGED <<caught, outcome>>
    /\ UNCHANGED <<adapter, config, units, url, requests, suspendedTogether>>

\* response.json() settles: a parse failure is caught, else transformResponse
\* runs and its value is returned or its failure caught
JsonSettle(i) ==
    /\ pc[i] = "awaitJson"
    /\ LET parsed == BodyJson(response[Frame(i)].body)
           result == transformResponse(parsed.value, units[Frame(i)])
       IN  IF parsed.kind = "throw" THEN Catch(i, parsed.error)
           ELSE IF result.kind = "throw" THEN Catch(i, result.error)
           ELSE /\ outcome' = [outcome EXCEPT ![i] = Fulfilled(result.value)]
                /\ pc' = [pc EXCEPT ![i] = "done"]
                /\ UNCHANGED caught
    /\ UNCHANGED <<adapter, config, units, url, response, requests, bodyReads,
                   transport, suspendedTogether>>

\* One invocation, every input
Next ==
    \/ \E cfg \in Configs : Call(1, cfg)
    \/ \E error \in Rejections : FetchReject(1, error)
    \/ \E resp \in Responses : FetchResolve(1, resp)
    \/ JsonSettle(1)

Spec == Init /\ [][Next]_vars

\* Several invocations, suspended and resumed in any order
NextInterleaved ==
    \/ \E i \in Invocations : \E cfg \in InterleavedConfigs : Call(i, cfg)
    \/ \E i \in Invocations : \E error \in Rejections : FetchReject(i, error)
    \/ \E i \in Invocations : \E resp \in InterleavedResponses : FetchResolve(i, resp)
    \/ \E i \in Invocations : JsonSettle(i)

SpecInterleaved == Init /\ [][NextInterleaved]_vars

\* fetchWeatherAsync(cfg) run from call to settlement against the answer
\* `answer` of the transport, nothing else running
RunAlone(cfg, answer) ==
    IF ValidationError(cfg) # Undefined THEN Rejected(ValidationError(cfg))
    ELSE IF answer.t = "rejection" THEN Rejected(Wrap(answer.error))
    ELSE IF ~ResponseOk(answer) THEN Rejected(Wrap(StatusError(answer)))
    ELSE IF BodyJson(answer.body).kind = "throw"
         THEN Rejected(Wrap(BodyJson(answer.body).error))
    ELSE IF transformResponse(BodyJson(answer.body).value, UnitsOf(cfg)).kind = "throw"
         THEN Rejected(Wrap(transformResponse(BodyJson(answer.body).value,
                                              UnitsOf(cfg)).error))
    ELSE Fulfilled(transformResponse(BodyJson(answer.body).value, UnitsOf(cfg)).value)

----------------------------------------------------------------------------
(* The claims *)

Done(i) == pc[i] = "done"
Succeeded(i) == Done(i) /\ outcome[i].kind = "fulfilled"
Failed(i) == Done(i) /\ outcome[i].kind = "rejected"

\* The parsed document invocation i received (it succeeded, so there is one)
DataOf(i) == transport[i].body.data

\* C1: a call whose apiKey is empty or absent, or whose latitude or longitude
\* is 0 or absent, is rejected at once with one of the two configuration
\* errors, unwrapped, and no request is ever handed to the transport.
C1_ValidationBeforeNetwork ==
    \A i \in Invocations :
        (/\ pc[i] # "idle"
         /\ \/ config[i].apiKey \in {Undefined, Str("")}
            \/ config[i].latitude \in {Undefined, Num(0)}
            \/ config[i].longitude \in {Undefined, Num(0)})
        => /\ Failed(i)
           /\ outcome[i].error \in
                {Error("Error", "Pirate Weather API key is required"),
                 Error("Error", "Latitude and longitude are required")}
           /\ requests[i] = <<>>
           /\ transport[i] = Undefined
           /\ bodyReads[i] = 0

C1_Witness ==
    /\ Failed(1)
    /\ config[1].apiKey = Str("key")
    /\ config[1].latitude = Num(0)
    /\ config[1].longitude = Num(-105)
    /\ requests[1] = <<>>

\* C2: once the transport has resolved with a status outside 2xx, the
\* invocation has failed with an error whose message holds the status code and
\* the status text, the body was never read and there is no result.
C2_StatusError ==
    \A i \in Invocations :
        (/\ transport[i].t = "Response"
         /\ transport[i].status \notin 200..299)
        => /\ Failed(i)
           /\ outcome[i].error.t = "Error"
           /\ outcome[i].error.message =
                "Failed to fetch Pirate Weather data: Pirate Weather API error: "
                    \o ToString(transport[i].status) \o " " \o transport[i].statusText
           /\ bodyReads[i] = 0

C2_Witness ==
    /\ Failed(1)
    /\ transport[1].t = "Response"
    /\ transport[1].status = 401
    /\ outcome[1].error.message =
         "Failed to fetch Pirate Weather data: Pirate Weather API error: 401 Unauthorized"

\* The body of invocation i cannot be parsed, or lacks currently, daily or daily.data
BadBody(i) ==
    /\ transport[i].t = "Response"
    /\ transport[i].ok
    /\ \/ transport[i].body.t = "malformed"
       \/ /\ transport[i].body.t = "json"
          /\ \/ DataOf(i).t # "object"
             \/ DataOf(i).currently.t # "object"
             \/ DataOf(i).daily.t # "object"
             \/ DataOf(i).daily.data.t # "array"

\* C3: a failure after the request was submitted reaches the caller as a new
\* Error whose message is the fetch-failure prefix, followed by ": " and the
\* inner message when an Error was caught, and the prefix alone otherwise; an
\* unparsable body and a body lacking currently or daily.data are such failures.
C3_WrappedFailure ==
    \A i \in Invocations :
        /\ (Failed(i) /\ requests[i] # <<>>)
            => /\ caught[i] # Undefined
               /\ outcome[i].error.t = "Error"
               /\ outcome[i].error.message =
                    IF caught[i].t = "Error"
                    THEN "Failed to fetch Pirate Weather data: " \o caught[i].message
                    ELSE "Failed to fetch Pirate Weather data"
               /\ outcome[i].error # caught[i]
        /\ (Done(i) /\ BadBody(i))
            => /\ Failed(i)
               /\ caught[i].t = "Error"
               /\ caught[i].name \in {"SyntaxError", "TypeError"}

C3_Witness ==
    /\ Failed(1)
    /\ BadBody(1)
    /\ transport[1].body.t = "json"
    /\ DataOf(1).t = "object"
    /\ DataOf(1).currently = Undefined
    /\ caught[1].name = "TypeError"

CompleteCurrent(c) ==
    /\ \A f \in {"temperature", "feelsLike", "humidity", "pressure", "windSpeed",
                 "windBearing", "cloudCover", "uvIndex", "visibility"} : c[f].t = "number"
    /\ c.condition.t = "string"
    /\ c.icon.t = "string"
    /\ c.conditionUnified \in Weather

CompleteDaily(d) ==
    /\ d.date.valid
    /\ \A f \in {"temperatureMax", "temperatureMin", "humidity", "pressure", "windSpeed",
                 "windBearing", "cloudCover", "uvIndex"} : d[f].t = "number"
    /\ d.condition.t = "string"
    /\ d.icon.t = "string"
    /\ d.conditionUnified \in Weather

Complete(w) ==
    /\ CompleteCurrent(w.current)
    /\ \A k \in 1..Len(w.daily) : CompleteDaily(w.daily[k])
    /\ w.location.latitude.t = "number"
    /\ w.location.longitude.t = "number"
    /\ w.location.timezone.t = "string"
    /\ w.units \in {Str("imperial"), Str("metric"), Str("hybrid")}

\* C4: a finished invocation has either failed, or succeeded with a
\* WeatherData every required field of which holds a defined, normalised value.
C4_AllOrNothing ==
    \A i \in Invocations :
        Done(i) => \/ Failed(i)
                   \/ Succeeded(i) /\ Complete(outcome[i].value)

\* C5: an invocation hands at most one URL to the transport, whatever
\* follows, and exactly one when it got past validation.
C5_SingleRequest ==
    \A i \in Invocations :
        /\ Len(requests[i]) <= 1
        /\ Succeeded(i) => Len(requests[i]) = 1
        /\ (Failed(i) /\ caught[i] # Undefined) => Len(requests[i]) = 1

C5_Witness ==
    /\ Failed(1)
    /\ transport[1].t = "Response"
    /\ transport[1].status = 500
    /\ Len(requests[1]) = 1

\* C6: the unified daily sequence has min(n, 7) entries for a vendor array of
\* n, and its k-th entry is the transformation of the vendor's k-th entry.
C6_FirstSevenInOrder ==
    \A i \in Invocations :
        Succeeded(i) =>
            LET items == DataOf(i).daily.data.items
                out == outcome[i].value.daily
            IN  /\ Len(out) = IF Len(items) < 7 THEN Len(items) ELSE 7
                /\ \A k \in 1..Len(out) :
                        out[k] = transformDailyWeather(items[k], UnitsOf(config[i]))

C6_Witness ==
    /\ Succeeded(1)
    /\ Len(DataOf(1).daily.data.items) > 7
    /\ Len(outcome[1].value.daily) = 7
    /\ outcome[1].value.daily[7].date = NewDate(Num(86400 * 7 * 1000))

\* C7: for every daily entry the unified temperatureMax is the vendor's
\* temperatureMax whenever that field is present, and temperatureHigh when it
\* is absent; likewise temperatureMin with temperatureLow.
C7_MaxMinPreferred ==
    \A i \in Invocations :
        Succeeded(i) =>
            \A k \in 1..Len(outcome[i].value.daily) :
                LET day == DataOf(i).daily.data.items[k]
                    out == outcome[i].value.daily[k]
                IN  /\ out.temperatureMax =
                         IF day.temperatureMax # Undefined THEN day.temperatureMax
                         ELSE day.temperatureHigh
                    /\ out.temperatureMin =
                         IF day.temperatureMin # Undefined THEN day.temperatureMin
                         ELSE day.temperatureLow

\* C8: the condition of the result is the table's entry for each of the 13
\* vendor icon codes and All for every other icon; it is always a member of
\* the enum.
C8_IconMappingTotal ==
    \A i \in Invocations :
        Succeeded(i) =>
            LET icon == DataOf(i).currently.icon
                out == outcome[i].value.current.conditionUnified
            IN  /\ out \in Weather
                /\ out = IF icon.t = "string" /\ icon.v \in DOMAIN iconMap
                         THEN iconMap[icon.v] ELSE W("All")

\* C9: the units descriptor of a result is imperial for us, metric for si and
\* ca, hybrid for uk2 and imperial for every other code; a call without a unit
\* code requests units=us and is described as imperial.
C9_UnitsDescriptor ==
    \A i \in Invocations :
        Succeeded(i) =>
            LET code == config[i].units
            IN  /\ outcome[i].value.units =
                     CASE code = Str("us") -> Str("imperial")
                       [] code = Str("si") -> Str("metric")
                       [] code = Str("ca") -> Str("metric")
                       [] code = Str("uk2") -> Str("hybrid")
                       [] OTHER -> Str("imperial")
                /\ code = Undefined =>
                     requests[i] =
                        <<Str("https://api.pirateweather.net/forecast/key/40,-105?units=us")>>

\* C10: whatever the interleaving, a finished invocation's outcome is the one
\* the same call has when run alone against the same answer of the transport,
\* and the adapter's fields never change.
C10_Isolation ==
    /\ adapter = AdapterFields
    /\ \A i \in Invocations :
            Done(i) => outcome[i] = RunAlone(config[i], transport[i])

C10_Witness ==
    /\ suspendedTogether
    /\ Succeeded(1)
    /\ Succeeded(2)
    /\ config[1].units = Str("si")
    /\ config[2].units = Str("uk2")
    /\ outcome[1].value.units = Str("metric")
    /\ outcome[2].value.units = Str("hybrid")

====
